---- MODULE Spec2Model ----
(***************************************************************************)
(* Model of the yandex-translate client library: the shared data model     *)
(* and error taxonomy (src/src/lib.rs) and the two client variants         *)
(* (src/src/blocking.rs, src/src/asynchronous.rs).                         *)
(*                                                                         *)
(* Strings are sequences of chunks (each chunk a TLA+ string), so that     *)
(* format!() is concatenation and "contains" is a sub-sequence test.       *)
(* Option<T> is a sequence of length 0 (None) or 1 (Some).                 *)
(***************************************************************************)
EXTENDS Integers, Sequences, FiniteSets, TLC

VARIABLES feature, client, newResult, ctor, override, pending, last

vars == <<feature, client, newResult, ctor, override, pending, last>>

\* ---------------------------------------------------------------- bounds
MaxInFlight == 1

\* ------------------------------------------------------- string helpers
None == <<>>

Some(v) == <<v>>

Contains(s, sub) ==
    \E i \in 0..(Len(s) - Len(sub)) : SubSeq(s, i + 1, i + Len(sub)) = sub

\* ------------------------------------------------------------ lib.rs
API_BASE_URL == <<"https://translate.api.cloud.yandex.net/translate/v2">>

ErrorVariants == {"RequestFailed", "JsonError", "ApiError", "ConfigError"}

\* enum AuthMethod { ApiKey(String), IAMToken(String) }
ApiKey(key) == [variant |-> "ApiKey", value |-> key]

IAMToken(token) == [variant |-> "IAMToken", value |-> token]

\* Result<T> values: Ok carries translations, Err carries the variant, the
\* kind of the wrapped reqwest::Error (RequestFailed) or the message (ApiError).
Ok(translations) ==
    [variant |-> "Ok", kind |-> "", msg |-> <<>>, translations |-> translations]

Err(variant, kind, msg) ==
    [variant |-> variant, kind |-> kind, msg |-> msg, translations |-> <<>>]

\* impl From<reqwest::Error> for Error   (#[from] on RequestFailed)
From_reqwest_Error(kind) == Err("RequestFailed", kind, <<>>)

\* impl From<serde_json::Error> for Error   (#[from] on JsonError)
From_serde_json_Error(kind) == Err("JsonError", kind, <<>>)

\* #[derive(Serialize)] #[serde(rename_all = "camelCase")] TranslateRequest:
\* one member per field, in declaration order; source_language_code is
\* skipped when Option::is_none.
JStr(s) == [t |-> "str", s |-> s, a |-> <<>>]

JArr(a) == [t |-> "arr", s |-> <<>>, a |-> a]

JNull == [t |-> "null", s |-> <<>>, a |-> <<>>]

Member(key, value) == [key |-> key, value |-> value]

\* Variant: an absent source language is emitted as null instead of skipped.
Serialize_TranslateRequest_null(request) ==
    <<Member("folderId", JStr(request.folder_id)),
      Member("texts", JArr(request.texts)),
      Member("targetLanguageCode", JStr(request.target_language_code)),
      Member("sourceLanguageCode",
             IF request.source_language_code = None THEN JNull
             ELSE JStr(request.source_language_code[1]))>>

Serialize_TranslateRequest(request) ==
    <<Member("folderId", JStr(request.folder_id)),
      Member("texts", JArr(request.texts)),
      Member("targetLanguageCode", JStr(request.target_language_code))>>
    \o (IF request.source_language_code = None
        THEN <<>>
        ELSE <<Member("sourceLanguageCode", JStr(request.source_language_code[1]))>>)

\* ------------------------------------------ transport (reqwest) values
\* A response body is a sequence of lexical chunks: JSON punctuation,
\* quoted string literals, "null", a number, free text, or a byte run that
\* is not valid UTF-8.
InvalidUtf8 == "\\xFF"

ReplacementChar == "\\uFFFD"

Unquote ==
    [tok \in {"\"translations\"", "\"text\"", "\"detectedLanguageCode\"",
              "\"Privet\"", "\"Mir\"", "\"en\"", "\"extra\""} |->
        CASE tok = "\"translations\"" -> "translations"
          [] tok = "\"text\"" -> "text"
          [] tok = "\"detectedLanguageCode\"" -> "detectedLanguageCode"
          [] tok = "\"Privet\"" -> "Privet"
          [] tok = "\"Mir\"" -> "Mir"
          [] tok = "\"en\"" -> "en"
          [] OTHER -> "extra"]

IsStringTok(tok) == tok \in DOMAIN Unquote

IsScalarTok(tok) == IsStringTok(tok) \/ tok \in {"null", "true", "false", "1"}

\* Response::text(): the body decoded as UTF-8, lossily.
text(body) ==
    [i \in 1..Len(body) |-> IF body[i] = InvalidUtf8 THEN ReplacementChar ELSE body[i]]

\* serde_json reads chunk i, an end-of-input marker past the end.
Tok(toks, i) == IF i \in 1..Len(toks) THEN toks[i] ELSE "<eof>"

\* Position after the JSON value that starts at i; 0 on a syntax error.
\* (serde::de::IgnoredAny, used for unknown keys)
RECURSIVE SkipValue(_, _)
RECURSIVE SkipElems(_, _)
RECURSIVE SkipElemsNext(_, _)
RECURSIVE SkipMembers(_, _)
RECURSIVE SkipMembersNext(_, _)
SkipValue(toks, i) ==
    CASE IsScalarTok(Tok(toks, i)) -> i + 1
      [] Tok(toks, i) = "[" ->
            IF Tok(toks, i + 1) = "]" THEN i + 2 ELSE SkipElems(toks, i + 1)
      [] Tok(toks, i) = "{" ->
            IF Tok(toks, i + 1) = "}" THEN i + 2 ELSE SkipMembers(toks, i + 1)
      [] OTHER -> 0

SkipElems(toks, i) == SkipElemsNext(toks, SkipValue(toks, i))

\* j: position after one element
SkipElemsNext(toks, j) ==
    CASE j = 0 -> 0
      [] Tok(toks, j) = "," -> SkipElems(toks, j + 1)
      [] Tok(toks, j) = "]" -> j + 1
      [] OTHER -> 0

SkipMembers(toks, i) ==
    IF IsStringTok(Tok(toks, i)) /\ Tok(toks, i + 1) = ":"
    THEN SkipMembersNext(toks, SkipValue(toks, i + 2))
    ELSE 0

\* j: position after one member
SkipMembersNext(toks, j) ==
    CASE j = 0 -> 0
      [] Tok(toks, j) = "," -> SkipMembers(toks, j + 1)
      [] Tok(toks, j) = "}" -> j + 1
      [] OTHER -> 0

\* Parse results: next = 0 on error, else the position after the value.
Fail == [next |-> 0, v |-> <<>>]

\* String
De_String(toks, i) ==
    IF IsStringTok(Tok(toks, i))
    THEN [next |-> i + 1, v |-> <<Unquote[Tok(toks, i)]>>]
    ELSE Fail

\* Option<String>: null is None
De_OptionString(toks, i) ==
    CASE Tok(toks, i) = "null" -> [next |-> i + 1, v |-> None]
      [] IsStringTok(Tok(toks, i)) ->
            [next |-> i + 1, v |-> Some(<<Unquote[Tok(toks, i)]>>)]
      [] OTHER -> Fail

\* #[derive(Deserialize)] #[serde(rename_all = "camelCase")] struct Translation
\* map form: text required, detectedLanguageCode optional, unknown keys
\* ignored, a repeated known key is an error.  acc.text and acc.dlc are the
\* Option<> accumulators of the generated visitor (None: key not seen yet).
RECURSIVE De_Translation_map(_, _, _)
RECURSIVE De_Translation_field(_, _, _, _)
RECURSIVE De_Translation_value(_, _, _)
RECURSIVE De_Translation_next(_, _, _)
De_Translation_map(toks, i, acc) ==
    IF IsStringTok(Tok(toks, i)) /\ Tok(toks, i + 1) = ":"
    THEN De_Translation_field(toks, Unquote[Tok(toks, i)], i + 2, acc)
    ELSE Fail

De_Translation_field(toks, key, i, acc) ==
    CASE key = "text" ->
            IF acc.text # None THEN Fail
            ELSE De_Translation_value(toks, De_String(toks, i),
                                      [acc EXCEPT !.text = Some(De_String(toks, i).v)])
      [] key = "detectedLanguageCode" ->
            IF acc.dlc # None THEN Fail
            ELSE De_Translation_value(toks, De_OptionString(toks, i),
                                      [acc EXCEPT !.dlc = Some(De_OptionString(toks, i).v)])
      [] OTHER ->
            De_Translation_value(toks, [next |-> SkipValue(toks, i), v |-> <<>>], acc)

\* r: the value just read; acc: the accumulators including it
De_Translation_value(toks, r, acc) ==
    IF r.next = 0 THEN Fail ELSE De_Translation_next(toks, r.next, acc)

De_Translation_next(toks, j, acc) ==
    CASE Tok(toks, j) = "," -> De_Translation_map(toks, j + 1, acc)
      [] Tok(toks, j) = "}" ->
            IF acc.text = None THEN Fail
            ELSE [next |-> j + 1,
                  v |-> <<[text |-> acc.text[1],
                           detected_language_code |->
                               IF acc.dlc = None THEN None ELSE acc.dlc[1]]>>]
      [] OTHER -> Fail

\* seq form: exactly the two fields, in declaration order
De_Translation_seq2(toks, t, d) ==
    IF d.next = 0 \/ Tok(toks, d.next) # "]" THEN Fail
    ELSE [next |-> d.next + 1, v |-> <<[text |-> t.v, detected_language_code |-> d.v]>>]

De_Translation_seq1(toks, t) ==
    IF t.next = 0 \/ Tok(toks, t.next) # "," THEN Fail
    ELSE De_Translation_seq2(toks, t, De_OptionString(toks, t.next + 1))

De_Translation_seq(toks, i) == De_Translation_seq1(toks, De_String(toks, i))

De_Translation(toks, i) ==
    CASE Tok(toks, i) = "{" ->
            IF Tok(toks, i + 1) = "}" THEN Fail
            ELSE De_Translation_map(toks, i + 1, [text |-> None, dlc |-> None])
      [] Tok(toks, i) = "[" -> De_Translation_seq(toks, i + 1)
      [] OTHER -> Fail

\* Vec<Translation>; v is the vector itself
RECURSIVE De_Vec_elems(_, _, _)
RECURSIVE De_Vec_next(_, _, _)
De_Vec_elems(toks, i, acc) == De_Vec_next(toks, De_Translation(toks, i), acc)

\* r: the element just read
De_Vec_next(toks, r, acc) ==
    CASE r.next = 0 -> Fail
      [] Tok(toks, r.next) = "," -> De_Vec_elems(toks, r.next + 1, acc \o r.v)
      [] Tok(toks, r.next) = "]" -> [next |-> r.next + 1, v |-> acc \o r.v]
      [] OTHER -> Fail

De_Vec_Translation(toks, i) ==
    IF Tok(toks, i) # "[" THEN Fail
    ELSE IF Tok(toks, i + 1) = "]" THEN [next |-> i + 2, v |-> <<>>]
    ELSE De_Vec_elems(toks, i + 1, <<>>)

\* #[derive(Deserialize)] struct TranslateResponse { translations }
\* acc: Option<Vec<Translation>>, None until the key is seen
RECURSIVE De_TranslateResponse_map(_, _, _)
RECURSIVE De_TranslateResponse_field(_, _, _)
RECURSIVE De_TranslateResponse_skipped(_, _, _)
RECURSIVE De_TranslateResponse_next(_, _, _)
De_TranslateResponse_map(toks, i, acc) ==
    IF IsStringTok(Tok(toks, i)) /\ Tok(toks, i + 1) = ":"
    THEN IF Unquote[Tok(toks, i)] = "translations"
         THEN IF acc # None THEN Fail
              ELSE De_TranslateResponse_field(toks, De_Vec_Translation(toks, i + 2), acc)
         ELSE De_TranslateResponse_skipped(toks, SkipValue(toks, i + 2), acc)
    ELSE Fail

\* r: the translations value just read
De_TranslateResponse_field(toks, r, acc) ==
    IF r.next = 0 THEN Fail ELSE De_TranslateResponse_next(toks, r.next, Some(r.v))

\* j: position after the value of an unknown key
De_TranslateResponse_skipped(toks, j, acc) ==
    IF j = 0 THEN Fail ELSE De_TranslateResponse_next(toks, j, acc)

De_TranslateResponse_next(toks, j, acc) ==
    CASE Tok(toks, j) = "," -> De_TranslateResponse_map(toks, j + 1, acc)
      [] Tok(toks, j) = "}" ->
            IF acc = None THEN Fail ELSE [next |-> j + 1, v |-> acc[1]]
      [] OTHER -> Fail

\* seq form: the one field
De_TranslateResponse_seq(toks, r) ==
    IF r.next = 0 \/ Tok(toks, r.next) # "]" THEN Fail
    ELSE [next |-> r.next + 1, v |-> r.v]

De_TranslateResponse(toks, i) ==
    CASE Tok(toks, i) = "{" ->
            IF Tok(toks, i + 1) = "}" THEN Fail
            ELSE De_TranslateResponse_map(toks, i + 1, None)
      [] Tok(toks, i) = "[" ->
            De_TranslateResponse_seq(toks, De_Vec_Translation(toks, i + 1))
      [] OTHER -> Fail

\* serde_json::from_slice::<TranslateResponse>: whitespace between chunks is
\* insignificant; anything after the value is an error.
NotSpace(c) == c # " "

from_slice_end(toks, r) ==
    IF r.next = 0 \/ r.next # Len(toks) + 1
    THEN [ok |-> FALSE, translations |-> <<>>]
    ELSE [ok |-> TRUE, translations |-> r.v]

from_slice_tokens(toks) == from_slice_end(toks, De_TranslateResponse(toks, 1))

from_slice(body) == from_slice_tokens(SelectSeq(body, NotSpace))

\* http::StatusCode
is_success(status) == 200 <= status /\ status < 300

DigitChar == <<"0", "1", "2", "3", "4", "5", "6", "7", "8", "9">>

RECURSIVE Decimal(_)
Decimal(n) ==
    IF n < 10 THEN <<DigitChar[n + 1]>>
    ELSE Decimal(n \div 10) \o <<DigitChar[(n % 10) + 1]>>

canonical_reason(status) ==
    CASE status = 200 -> "OK"
      [] status = 300 -> "Multiple Choices"
      [] status = 400 -> "Bad Request"
      [] OTHER -> "<unknown status code>"

\* impl Display for StatusCode: "{code} {canonical reason}"
Display_StatusCode(status) == Decimal(status) \o <<" ", canonical_reason(status)>>

\* RequestBuilder: header() appends; json() sets the body and adds
\* Content-Type only when the request has none yet.
post(url) == [method |-> "POST", url |-> url, headers |-> <<>>, body |-> <<>>]

header(req, name, value) ==
    [req EXCEPT !.headers = Append(@, [name |-> name, value |-> value])]

json(req, request) ==
    LET withBody == [req EXCEPT !.body = Serialize_TranslateRequest(request)]
    IN IF \E i \in 1..Len(req.headers) : req.headers[i].name = "Content-Type"
       THEN withBody
       ELSE header(withBody, "Content-Type", <<"application/json">>)

\* ------------------------------------------------------- blocking.rs
blocking_new(auth, built) ==
    IF built
    THEN [result |-> "Ok", self |-> Some([auth |-> auth, base_url |-> API_BASE_URL])]
    ELSE [result |-> "RequestFailed", self |-> None]

blocking_with_api_key(api_key, built) == blocking_new(ApiKey(api_key), built)

\* Variant: the IAM token constructor stores the token as an API key.
blocking_with_iam_token_as_key(iam_token, built) == blocking_new(ApiKey(iam_token), built)

blocking_with_iam_token(iam_token, built) == blocking_new(IAMToken(iam_token), built)

\* Variant: the override is dropped.
blocking_with_base_url_ignored(self, base_url) == self

\* Variant: the builder rebuilds the client and loses the credential scheme.
blocking_with_base_url_resets_auth(self, base_url) ==
    [auth |-> ApiKey(self.auth.value), base_url |-> base_url]

blocking_with_base_url(self, base_url) == [self EXCEPT !.base_url = base_url]

\* lines 121-133: the request handed to send()
blocking_request(self, request) ==
    LET url == self.base_url \o <<"/translate">>
        req == header(post(url), "Content-Type", <<"application/json">>)
        req2 == IF self.auth.variant = "ApiKey"
                THEN header(req, "Authorization", <<"Api-Key ">> \o self.auth.value)
                ELSE header(req, "Authorization", <<"Bearer ">> \o self.auth.value)
    IN json(req2, request)

\* Variant: the message reports the status only.
blocking_api_error_no_body(outcome) ==
    Err("ApiError", "", <<"API returned status ">> \o Display_StatusCode(outcome.status))

\* lines 136-144: the non-success branch
blocking_api_error(outcome) ==
    LET status == outcome.status
        error_text == IF outcome.readable THEN text(outcome.body)
                      ELSE <<"Unknown error">>
    IN Err("ApiError", "",
           <<"API returned status ">> \o Display_StatusCode(status)
           \o <<": ">> \o error_text)

\* Variant: an undecodable body yields an empty response.
blocking_json_lenient(outcome) ==
    IF ~outcome.readable THEN From_reqwest_Error("Body")
    ELSE Ok(from_slice(outcome.body).translations)

\* line 147: Ok(response.json()?) -- json() fails with a reqwest::Error
\* when the body cannot be read or cannot be decoded
blocking_json(outcome) ==
    LET parsed == from_slice(outcome.body)
    IN IF ~outcome.readable THEN From_reqwest_Error("Body")
       ELSE IF ~parsed.ok THEN From_reqwest_Error("Decode")
       ELSE Ok(parsed.translations)

\* Variant: a failed call is sent a second time before giving up.
blocking_translate_retry(self, request, outcome) ==
    LET http == blocking_request(self, request)
    IN IF outcome.sendErr # None
       THEN [sent |-> <<http, http>>, trace |-> <<"send", "send">>,
             result |-> From_reqwest_Error(outcome.sendErr[1])]
       ELSE IF ~is_success(outcome.status)
       THEN [sent |-> <<http, http>>,
             trace |-> <<"send", "status", "send", "status", "status", "text">>,
             result |-> blocking_api_error(outcome)]
       ELSE [sent |-> <<http>>, trace |-> <<"send", "status", "json">>,
             result |-> blocking_json(outcome)]

\* Variant: a send failure is not propagated by `?` but reported like a
\* failed response.
blocking_translate_send_unchecked(self, request, outcome) ==
    LET sent == <<blocking_request(self, request)>>
    IN IF outcome.sendErr # None \/ ~is_success(outcome.status)
       THEN [sent |-> sent, trace |-> <<"send", "status", "status", "text">>,
             result |-> blocking_api_error(outcome)]
       ELSE [sent |-> sent, trace |-> <<"send", "status", "json">>,
             result |-> blocking_json(outcome)]

\* translate: outcome is what the transport does with the request, trace
\* lists the operations performed on the transport, in order.
blocking_translate(self, request, outcome) ==
    LET sent == <<blocking_request(self, request)>>
    IN IF outcome.sendErr # None
       THEN [sent |-> sent, trace |-> <<"send">>,
             result |-> From_reqwest_Error(outcome.sendErr[1])]
       ELSE IF ~is_success(outcome.status)
       THEN [sent |-> sent, trace |-> <<"send", "status", "status", "text">>,
             result |-> blocking_api_error(outcome)]
       ELSE [sent |-> sent, trace |-> <<"send", "status", "json">>,
             result |-> blocking_json(outcome)]

\* ----------------------------------------------------- asynchronous.rs
async_new(auth, built) ==
    IF built
    THEN [result |-> "Ok", self |-> Some([auth |-> auth, base_url |-> API_BASE_URL])]
    ELSE [result |-> "RequestFailed", self |-> None]

async_with_api_key(api_key, built) == async_new(ApiKey(api_key), built)

async_with_iam_token(iam_token, built) == async_new(IAMToken(iam_token), built)

async_with_base_url(self, base_url) == [self EXCEPT !.base_url = base_url]

\* lines 143-155: the request handed to send()
async_request(self, request) ==
    LET url == self.base_url \o <<"/translate">>
        req == header(post(url), "Content-Type", <<"application/json">>)
        req2 == IF self.auth.variant = "ApiKey"
                THEN header(req, "Authorization", <<"Api-Key ">> \o self.auth.value)
                ELSE header(req, "Authorization", <<"Bearer ">> \o self.auth.value)
    IN json(req2, request)

\* lines 158-167: the non-success branch
async_api_error(outcome) ==
    LET status == outcome.status
        error_text == IF outcome.readable THEN text(outcome.body)
                      ELSE <<"Unknown error">>
    IN Err("ApiError", "",
           <<"API returned status ">> \o Display_StatusCode(status)
           \o <<": ">> \o error_text)

\* line 170: Ok(response.json()?) -- json() fails with a reqwest::Error
\* when the body cannot be read or cannot be decoded
async_json(outcome) ==
    LET parsed == from_slice(outcome.body)
    IN IF ~outcome.readable THEN From_reqwest_Error("Body")
       ELSE IF ~parsed.ok THEN From_reqwest_Error("Decode")
       ELSE Ok(parsed.translations)

\* translate: outcome is what the transport does with the request, trace
\* lists the operations performed on the transport, in order.  Each await is a suspension point;
\* the steps between them run in the order of trace.
async_translate(self, request, outcome) ==
    LET sent == <<async_request(self, request)>>
    IN IF outcome.sendErr # None
       THEN [sent |-> sent, trace |-> <<"send">>,
             result |-> From_reqwest_Error(outcome.sendErr[1])]
       ELSE IF ~is_success(outcome.status)
       THEN [sent |-> sent, trace |-> <<"send", "status", "status", "text">>,
             result |-> async_api_error(outcome)]
       ELSE [sent |-> sent, trace |-> <<"send", "status", "json">>,
             result |-> async_json(outcome)]

\* ------------------------------------------------------------- inputs
Credentials == {<<"k">>}

AuthMethods == {ApiKey(c) : c \in Credentials} \cup {IAMToken(c) : c \in Credentials}

BaseUrls == {<<"https://mock.test">>}

TextLists == {<<>>, <<<<"Hello">>>>, <<<<"Hello">>, <<"World">>>>}

TranslateRequests ==
    [folder_id : {<<"f1">>},
     texts : TextLists,
     target_language_code : {<<"ru">>},
     source_language_code : {None, Some(<<"en">>)}]

Statuses == {200, 299, 300, 400}

Bodies ==
    { <<"{", "\"translations\"", ":", "[", "{", "\"text\"", ":", "\"Privet\"", ",",
        "\"detectedLanguageCode\"", ":", "\"en\"", "}", "]", "}">>,
      <<"{", "\"translations\"", ":", " ", "[", "]", "}">>,
      <<"{", "\"translations\"", ":", "[", "{", "\"text\"", ":", "\"Privet\"", "}", ",",
        "{", "\"detectedLanguageCode\"", ":", "null", ",", "\"extra\"", ":", "[", "1", "]",
        ",", "\"text\"", ":", "\"Mir\"", "}", "]", ",", "\"extra\"", ":", "{", "}", "}">>,
      <<"{", "\"translations\"", ":", "[", "{", "\"text\"", ":", "\"Privet\"", "}">>,
      <<"bad", " ", "folder">>,
      <<"bad", InvalidUtf8>> }

SendErrKinds == {"Request"}

\* What the transport can do with one request: fail to send, or deliver a
\* status and a body that may fail while being read.
Outcomes ==
    [sendErr : {Some(k) : k \in SendErrKinds}, status : {0}, readable : {FALSE}, body : {<<>>}]
    \cup [sendErr : {None}, status : Statuses, readable : {TRUE}, body : Bodies]
    \cup [sendErr : {None}, status : Statuses, readable : {FALSE}, body : {<<>>}]

\* ---------------------------------------------------- state machine
Init ==
    /\ feature \in {"blocking", "async"}
    /\ client = None
    /\ newResult = "none"
    /\ ctor = None
    /\ override = None
    /\ pending = {}
    /\ last = None

Construct(r, how) ==
    /\ client = None
    /\ client' = r.self
    /\ newResult' = r.result
    /\ ctor' = IF r.self = None THEN None ELSE Some(how)
    /\ UNCHANGED <<feature, override, pending, last>>

New ==
    \E auth \in AuthMethods, built \in BOOLEAN :
        Construct(IF feature = "blocking" THEN blocking_new(auth, built)
                  ELSE async_new(auth, built),
                  [via |-> "new", variant |-> auth.variant, arg |-> auth.value])

WithApiKey ==
    \E api_key \in Credentials, built \in BOOLEAN :
        Construct(IF feature = "blocking" THEN blocking_with_api_key(api_key, built)
                  ELSE async_with_api_key(api_key, built),
                  [via |-> "with_api_key", variant |-> "ApiKey", arg |-> api_key])

WithIamToken ==
    \E iam_token \in Credentials, built \in BOOLEAN :
        Construct(IF feature = "blocking" THEN blocking_with_iam_token(iam_token, built)
                  ELSE async_with_iam_token(iam_token, built),
                  [via |-> "with_iam_token", variant |-> "IAMToken", arg |-> iam_token])

\* with_base_url takes self by value: no translate future may still borrow it.
WithBaseUrl ==
    \E base_url \in BaseUrls :
        /\ client # None
        /\ pending = {}
        /\ client' = Some(IF feature = "blocking"
                          THEN blocking_with_base_url(client[1], base_url)
                          ELSE async_with_base_url(client[1], base_url))
        /\ override' = Some(base_url)
        /\ UNCHANGED <<feature, newResult, ctor, pending, last>>

Completed(self, ovr, request, outcome, r) ==
    Some([self |-> self, override |-> ovr, request |-> request, outcome |-> outcome,
          sent |-> r.sent, trace |-> r.trace, result |-> r.result])

BlockingTranslate ==
    \E request \in TranslateRequests, outcome \in Outcomes :
        /\ feature = "blocking"
        /\ client # None
        /\ last' = Completed(client[1], override, request, outcome,
                              blocking_translate(client[1], request, outcome))
        /\ UNCHANGED <<feature, client, newResult, ctor, override, pending>>

\* First poll of the future: the request is built and handed to send(), and
\* the task suspends at the await.
AsyncTranslateCall ==
    \E request \in TranslateRequests :
        /\ feature = "async"
        /\ client # None
        /\ Cardinality(pending) < MaxInFlight
        /\ pending' = pending \cup {[self |-> client[1], override |-> override,
                                      request |-> request,
                                      http |-> async_request(client[1], request)]}
        /\ UNCHANGED <<feature, client, newResult, ctor, override, last>>

\* The transport resolves one outstanding call (in any order) and the
\* future runs to completion.  Calls in flight are independent; two that
\* agree in every field are not told apart.
AsyncTranslateResume ==
    \E p \in pending, outcome \in Outcomes :
        /\ feature = "async"
        /\ last' = Completed(p.self, p.override, p.request, outcome,
                              async_translate(p.self, p.request, outcome))
        /\ pending' = pending \ {p}
        /\ UNCHANGED <<feature, client, newResult, ctor, override>>

Next ==
    \/ New
    \/ WithApiKey
    \/ WithIamToken
    \/ WithBaseUrl
    \/ BlockingTranslate
    \/ AsyncTranslateCall
    \/ AsyncTranslateResume

Spec == Init /\ [][Next]_vars

\* Every HTTP request handed to the transport that the state still records.
Emitted ==
    {[http |-> p.http, request |-> p.request, override |-> p.override] : p \in pending}
    \cup (IF last = None THEN {}
          ELSE {[http |-> last[1].sent[j], request |-> last[1].request,
                 override |-> last[1].override] : j \in 1..Len(last[1].sent)})

TypeOK ==
    /\ feature \in {"blocking", "async"}
    /\ Cardinality(pending) <= MaxInFlight
    /\ last # None => last[1].result.variant \in ErrorVariants \cup {"Ok"}

\* ------------------------------------------------------------ claims
Last == last[1]

HeaderValues(http, name) ==
    LET idx == {i \in 1..Len(http.headers) : http.headers[i].name = name}
    IN [v \in idx |-> http.headers[v].value]

Keys(body) == [i \in 1..Len(body) |-> body[i].key]

Count(seq, x) == Cardinality({i \in 1..Len(seq) : seq[i] = x})

Delivered == last # None /\ Last.outcome.sendErr = None

\* C1: a delivered 2xx response whose body does not decode into
\* {"translations": [...]} makes translate return JsonError.
C1_MalformedBodyYieldsJsonError ==
    (/\ Delivered
     /\ is_success(Last.outcome.status)
     /\ Last.outcome.readable
     /\ ~from_slice(Last.outcome.body).ok)
    => Last.result.variant = "JsonError"

\* C2: a delivered non-2xx response makes translate return ApiError whose
\* message contains the status code and the body text (the body itself when
\* it is valid UTF-8, "Unknown error" when it cannot be read); the body is
\* never parsed and Ok is never returned.
C2_NonSuccessYieldsApiError ==
    (Delivered /\ ~is_success(Last.outcome.status))
    => /\ Last.result.variant = "ApiError"
       /\ Contains(Last.result.msg, Decimal(Last.outcome.status))
       /\ Last.outcome.readable => Contains(Last.result.msg, text(Last.outcome.body))
       /\ (Last.outcome.readable /\ Count(Last.outcome.body, InvalidUtf8) = 0)
             => Contains(Last.result.msg, Last.outcome.body)
       /\ ~Last.outcome.readable => Contains(Last.result.msg, <<"Unknown error">>)
       /\ Count(Last.trace, "json") = 0
       /\ Last.result.translations = <<>>

C2_Witness ==
    /\ Delivered
    /\ Last.outcome.status = 400
    /\ Last.outcome.body = <<"bad", " ", "folder">>
    /\ Last.result.variant = "ApiError"
    /\ Last.result.msg = <<"API returned status ", "4", "0", "0", " ", "Bad Request",
                           ": ", "bad", " ", "folder">>

\* C3: when translate returns Ok for a request with non-empty texts, the
\* response has as many translations as the request has texts.
C3_TranslationsMatchTexts ==
    (/\ last # None
     /\ Last.result.variant = "Ok"
     /\ Len(Last.request.texts) > 0)
    => Len(Last.result.translations) = Len(Last.request.texts)

\* C4: every translate call hands exactly one request to the transport,
\* whatever its outcome; no error is followed by a second send.
C4_ExactlyOneRequestPerCall ==
    last # None => (Len(Last.sent) = 1 /\ Count(Last.trace, "send") = 1)

C4_Witness ==
    /\ last # None
    /\ Last.result.variant = "ApiError"
    /\ Len(Last.sent) = 1

\* C5: every request carries exactly one Authorization header, "Api-Key k"
\* for ApiKey(k) and "Bearer t" for IAMToken(t), and a client built by
\* with_api_key(k) / with_iam_token(t) holds ApiKey(k) / IAMToken(t).
C5_AuthorizationHeader ==
    ctor # None
    => LET scheme == IF ctor[1].variant = "ApiKey" THEN "Api-Key " ELSE "Bearer "
       IN /\ client # None
          /\ client[1].auth = [variant |-> ctor[1].variant, value |-> ctor[1].arg]
          /\ \A e \in Emitted :
                LET values == HeaderValues(e.http, "Authorization")
                IN /\ Cardinality(DOMAIN values) = 1
                   /\ \A i \in DOMAIN values : values[i] = <<scheme>> \o ctor[1].arg

C5_Witness ==
    /\ ctor # None
    /\ ctor[1].via = "with_iam_token"
    /\ last # None
    /\ \E i \in 1..Len(Last.sent[1].headers) :
          Last.sent[1].headers[i] = [name |-> "Authorization", value |-> <<"Bearer ", "k">>]

\* C6: a request is POSTed to u/translate when with_base_url(u) preceded the
\* call, and to the default base URL + /translate when it never was called.
C6_TargetUrl ==
    \A e \in Emitted :
        /\ e.http.method = "POST"
        /\ e.http.url = (IF e.override = None THEN API_BASE_URL ELSE e.override[1])
                        \o <<"/translate">>
        /\ (e.override # None /\ e.override[1] # API_BASE_URL)
              => e.http.url # API_BASE_URL \o <<"/translate">>

C6_Witness ==
    /\ last # None
    /\ Last.override = Some(<<"https://mock.test">>)
    /\ Last.sent[1].url = <<"https://mock.test", "/translate">>

\* C7: the serialized body has the key sourceLanguageCode exactly when
\* source_language_code is Some, never a null value, and always folderId,
\* texts and targetLanguageCode.
C7_SourceLanguageOmitted ==
    \A e \in Emitted :
        LET body == e.http.body
        IN /\ Count(Keys(body), "sourceLanguageCode")
                 = (IF e.request.source_language_code = None THEN 0 ELSE 1)
           /\ \A i \in 1..Len(body) : body[i].value # JNull
           /\ \E i \in 1..Len(body) : body[i] = Member("folderId", JStr(e.request.folder_id))
           /\ \E i \in 1..Len(body) : body[i] = Member("texts", JArr(e.request.texts))
           /\ \E i \in 1..Len(body) :
                 body[i] = Member("targetLanguageCode", JStr(e.request.target_language_code))
           /\ \A k \in {"folderId", "texts", "targetLanguageCode"} : Count(Keys(body), k) = 1

C7_Witness ==
    /\ last # None
    /\ Last.request.source_language_code = None
    /\ Keys(Last.sent[1].body) = <<"folderId", "texts", "targetLanguageCode">>

\* C8: when the transport fails to send, translate returns RequestFailed at
\* once: no status is inspected and no body is read or parsed.
C8_SendFailureIsRequestFailed ==
    (last # None /\ Last.outcome.sendErr # None)
    => (Last.result.variant = "RequestFailed" /\ Last.trace = <<"send">>)

C8_Witness ==
    /\ last # None
    /\ Last.outcome.sendErr = Some("Request")
    /\ Last.result = From_reqwest_Error("Request")

\* C9: no step changes the stored AuthMethod of a constructed client, and a
\* step of translate (a call issued or completed) leaves auth and base_url
\* as they were.
C9_ConfigFrozen ==
    [][client # None
          => /\ client' # None
             /\ client'[1].auth = client[1].auth
             /\ (last' # last \/ pending' # pending) => client' = client]_vars

C9_Witness ==
    /\ last # None
    /\ override # None
    /\ Last.override = None
    /\ client[1].auth = Last.self.auth
    /\ client[1].base_url # Last.self.base_url

\* C10: what the compiled variant emitted and returned is what the other
\* variant emits and returns for the same client, request and transport
\* outcome.
C10_VariantsAgree ==
    /\ \A p \in pending : p.http = blocking_request(p.self, p.request)
    /\ last # None
          => LET other == IF feature = "blocking"
                          THEN async_translate(Last.self, Last.request, Last.outcome)
                          ELSE blocking_translate(Last.self, Last.request, Last.outcome)
             IN other.sent = Last.sent /\ other.result = Last.result

C10_Witness ==
    /\ feature = "async"
    /\ last # None
    /\ Last.result.variant = "Ok"
    /\ Len(Last.result.translations) = 2

====
